---- MODULE Spec2Model ----
(***************************************************************************)
(* The WebRTC call-signaling relay of registerRoutes (the WebSocketServer  *)
(* on /ws-signaling): the `connections` map, the `activeCalls` map, the    *)
(* per-connection `userId` closure variable, and the 'message' and 'close' *)
(* handlers of every accepted socket (Spec).                               *)
(* The browser side, class WebRTCService of client/src/lib/webrtc.ts, as   *)
(* the CallManager component drives it: its signaling sockets and the      *)
(* reconnect timeout (ReconnectSpec, ReconnectFairSpec) and its current    *)
(* call id (CallSpec), each run against the relay's handlers.              *)
(***************************************************************************)
EXTENDS Integers, Sequences, FiniteSets, TLC

\* ------------------------------------------------------------------ bounds
NConn    == 2   \* sockets the server accepts in one run
NUsers   == 2   \* distinct user ids that clients put in `register`
NCallIds == 2   \* distinct tokens Math.random() can yield in one run
NPayloads == 1  \* distinct opaque payloads (offer / answer / candidate / name)
NSocks   == 3   \* sockets one WebRTCService opens in one run
MaxUp    == 2   \* messages of a client socket the relay has not handled yet
MaxDown  == 2   \* frames for a client socket the client has not handled yet

Conns    == 1..NConn
UserIds  == 1..NUsers
CallIds  == 1..NCallIds
Payloads == 1..NPayloads
CallerNames == {NPayloads + p : p \in Payloads}

\* ------------------------------------------------------- values of the code
Null      == -1           \* `let userId: string | null = null`
Undefined == 0            \* a field the JSON message does not carry
UndefStr  == "undefined"  \* the same, for the string-valued fields
CallTypes == {"voice", "video"}

\* what a client may put in a field (a missing field reads as undefined)
UserVals == UserIds \cup {Undefined}
CallVals == CallIds \cup {Undefined}

VARIABLES
  readyState,   \* readyState of every socket: "idle" (not yet accepted),
                \* "open", "closing" (no longer OPEN, 'close' not yet emitted),
                \* "closed"
  userId,       \* the closure variable `userId` of each connection handler
  connections,  \* Map userId -> WebSocket
  activeCalls,  \* Map callId -> call record
  sent,         \* the frames the last handler wrote, in order: [to, msg]
  last,         \* the event the last handler ran for
  ended,        \* call ids whose session was deleted and not created again
  race          \* whether the last two handlers ran a call-end and an
                \* ice-candidate of the two participants of one call, and in
                \* which order (see RaceAfter)

\* the WebRTCService instance of one browser (client/src/lib/webrtc.ts) and
\* the sockets it opens
VARIABLES
  ws,            \* this.ws: a socket, or 0 for null
  clientUserId,  \* this.userId
  currentCallId, \* this.currentCallId
  sockState,     \* readyState of each socket in the browser: "none" (not
                 \* created), "connecting", "open", "closing", "closed"
  sockUser,      \* the `userId` argument of the connect() that made the socket
  timers,        \* reconnect timeouts that are pending
  up,            \* per socket: messages sent, not yet handled by the relay
  down,          \* per socket: frames the relay wrote, not yet handled
  starting,      \* the receiver of a startCall() that has not sent its offer
                 \* yet (it awaits the media and the SDP offer), or 0
  wanted,        \* the application called connect() and not disconnect() since
  started,       \* startCall() has been invoked
  hungUp         \* endCall() has been invoked after startCall()

relayVars == <<readyState, userId, connections, activeCalls, sent, last, ended, race>>
clientVars == <<ws, clientUserId, currentCallId, sockState, sockUser, timers,
                up, down, starting, wanted, started, hungUp>>
vars == <<relayVars, clientVars>>

\* ------------------------------------------------------------ Map helpers
\* Map.prototype.has / get / set / delete on `connections`
MapSet(m, k, v) == [x \in (DOMAIN m) \cup {k} |-> IF x = k THEN v ELSE m[x]]
MapDelete(m, k) == [x \in (DOMAIN m) \ {k} |-> m[x]]

\* Map.prototype.has / get / set / delete on `activeCalls` (keyed by callId)
HasCall(calls, id) == id \in DOMAIN calls
GetCall(calls, id) == calls[id]
SetCall(calls, rec) == MapSet(calls, rec.callId, rec)
DeleteCallMutant(calls, id) == calls
DeleteCall(calls, id) == MapDelete(calls, id)
LiveIds(calls) == DOMAIN calls

\* the keys of a set of call ids as the sequence a loop visits them in
\* (the Map iterates in insertion order; ids are taken in ascending order
\* here, the order among the frames of different calls being immaterial)
RECURSIVE IdSeq(_)
IdSeq(S) ==
  IF S = {} THEN <<>>
  ELSE LET lo == CHOOSE x \in S : \A y \in S : x <= y
       IN <<lo>> \o IdSeq(S \ {lo})

\* ------------------------------------------------------------ frames
Frame(type, callId, callerId, callerName, callType, payload, reason) ==
  [type |-> type, callId |-> callId, callerId |-> callerId,
   callerName |-> callerName, callType |-> callType,
   payload |-> payload, reason |-> reason]

Msg(type, uid, receiverId, callId, payload, callerName, callType) ==
  [type |-> type, userId |-> uid, receiverId |-> receiverId, callId |-> callId,
   payload |-> payload, callerName |-> callerName, callType |-> callType]

Event(kind, c, m, gen) == [kind |-> kind, conn |-> c, msg |-> m, gen |-> gen]
NoMsg == Msg(UndefStr, Undefined, Undefined, Undefined, Undefined, Undefined, UndefStr)

WsIsOpenMutant(conns, uid) == uid \in DOMAIN conns

\* `xWs && xWs.readyState === WebSocket.OPEN` for xWs = connections.get(uid)
WsIsOpen(conns, uid) == uid \in DOMAIN conns /\ readyState[conns[uid]] = "open"

\* `call.callerId === userId ? call.receiverId : call.callerId`
OtherUserId(call, uid) ==
  IF call.callerId = uid THEN call.receiverId ELSE call.callerId

\* ------------------------------------------------------------ history
\* `race` after a handler has run. A call-end or an ice-candidate that
\* names a live call, sent by one of its two distinct participants on that
\* user's registered connection while the other participant is registered
\* on an open connection, is the first leg ("end" / "ice"); the other
\* message, for the same call id and from the connection the first leg's
\* frame went to, run as the very next handler, is the second leg
\* ("end-ice" / "ice-end"). `first` is the connection of the first leg.
NoRace == [order |-> "none", first |-> 0]

FirstLeg(e) ==
  /\ e.kind = "message"
  /\ e.msg.type \in {"call-end", "ice-candidate"}
  /\ e.msg.callId \in DOMAIN activeCalls
  /\ LET call == activeCalls[e.msg.callId]
         a == userId[e.conn]
         b == IF call.callerId = a THEN call.receiverId ELSE call.callerId
     IN /\ a \in UserIds /\ b \in UserIds /\ a # b
        /\ a \in {call.callerId, call.receiverId}
        /\ a \in DOMAIN connections /\ connections[a] = e.conn
        /\ b \in DOMAIN connections /\ connections[b] # e.conn
        /\ readyState[connections[b]] = "open"
        /\ userId[connections[b]] = b

SecondLeg(e) ==
  /\ race.order \in {"end", "ice"}
  /\ e.kind = "message"
  /\ e.msg.type = (IF race.order = "end" THEN "ice-candidate" ELSE "call-end")
  /\ e.msg.callId = last.msg.callId
  /\ Len(sent) = 1
  /\ e.conn = sent[1].to

RaceAfter(e) ==
  IF SecondLeg(e)
  THEN [order |-> (IF race.order = "end" THEN "end-ice" ELSE "ice-end"),
        first |-> race.first]
  ELSE IF FirstLeg(e)
  THEN [order |-> (IF e.msg.type = "call-end" THEN "end" ELSE "ice"),
        first |-> e.conn]
  ELSE NoRace

\* the fields of a new WebRTCService; no socket exists yet
PeerConn == 1
Socks == 2..(NSocks + 1)
PeerUser == NUsers
ClientUsers == UserIds \ {PeerUser}

ClientInit ==
  /\ ws = 0
  /\ clientUserId = Null
  /\ currentCallId = Null
  /\ sockState = [s \in Socks |-> "none"]
  /\ sockUser = [s \in Socks |-> Null]
  /\ timers = 0
  /\ up = [s \in Socks |-> <<>>]
  /\ down = [s \in Socks |-> <<>>]
  /\ starting = 0
  /\ wanted = FALSE
  /\ started = FALSE
  /\ hungUp = FALSE

\* ------------------------------------------------------------ Init
Init ==
  /\ readyState = [c \in Conns |-> "idle"]
  /\ userId = [c \in Conns |-> Null]
  /\ connections = <<>>
  /\ activeCalls = <<>>
  /\ sent = <<>>
  /\ last = Event("init", 1, NoMsg, Undefined)
  /\ ended = {}
  /\ race = NoRace
  /\ ClientInit

\* wss.on('connection'): the server accepts its next socket
Connection(c) ==
  /\ readyState[c] = "idle"
  /\ \A d \in Conns : d < c => readyState[d] # "idle"
  /\ readyState' = [readyState EXCEPT ![c] = "open"]
  /\ sent' = <<>>
  /\ last' = Event("connection", c, NoMsg, Undefined)
  /\ UNCHANGED <<userId, connections, activeCalls, ended>>

\* the socket leaves OPEN (close frame received, or the transport failed);
\* its 'close' event is emitted later
Closing(c) ==
  /\ readyState[c] = "open"
  /\ readyState' = [readyState EXCEPT ![c] = "closing"]
  /\ sent' = <<>>
  /\ last' = Event("closing", c, NoMsg, Undefined)
  /\ UNCHANGED <<userId, connections, activeCalls, ended>>

RegisterMutant(c, m) ==
  /\ userId' = [userId EXCEPT ![c] = m.userId]
  /\ connections' = IF m.userId \in DOMAIN connections THEN connections
                    ELSE MapSet(connections, m.userId, c)
  /\ sent' = <<>>
  /\ UNCHANGED <<readyState, activeCalls, ended>>

\* case 'register'
Register(c, m) ==
  /\ userId' = [userId EXCEPT ![c] = m.userId]
  /\ connections' = MapSet(connections, m.userId, c)
  /\ sent' = <<>>
  /\ UNCHANGED <<readyState, activeCalls, ended>>

OfferFramesReordered(c, m, callId) ==
  (IF WsIsOpen(connections, m.receiverId)
   THEN <<[to |-> connections[m.receiverId],
           msg |-> Frame("incoming-call", callId, userId[c], m.callerName,
                         m.callType, m.payload, UndefStr)]>>
   ELSE <<[to |-> c,
           msg |-> Frame("call-failed", Undefined, Undefined, Undefined,
                         UndefStr, Undefined, "User not available")]>>)
  \o <<[to |-> c,
        msg |-> Frame("call-initiated", callId, Undefined, Undefined, UndefStr,
                      Undefined, UndefStr)]>>

OfferFramesMutant(c, m, callId) ==
  <<[to |-> c,
     msg |-> Frame("call-initiated", callId, Undefined, Undefined, UndefStr,
                   Undefined, UndefStr)]>>
  \o (IF WsIsOpen(connections, m.receiverId)
      THEN <<[to |-> connections[m.receiverId],
              msg |-> Frame("incoming-call", callId, m.userId, m.callerName,
                            m.callType, m.payload, UndefStr)]>>
      ELSE <<[to |-> c,
              msg |-> Frame("call-failed", Undefined, Undefined, Undefined,
                            UndefStr, Undefined, "User not available")]>>)

\* the frames case 'call-offer' writes after activeCalls.set
OfferFrames(c, m, callId) ==
  <<[to |-> c,
     msg |-> Frame("call-initiated", callId, Undefined, Undefined, UndefStr,
                   Undefined, UndefStr)]>>
  \o (IF WsIsOpen(connections, m.receiverId)
      THEN <<[to |-> connections[m.receiverId],
              msg |-> Frame("incoming-call", callId, userId[c], m.callerName,
                            m.callType, m.payload, UndefStr)]>>
      ELSE <<[to |-> c,
              msg |-> Frame("call-failed", Undefined, Undefined, Undefined,
                            UndefStr, Undefined, "User not available")]>>)

\* the record case 'call-offer' stores (its `type: callType` field is written
\* here and read by no handler; callType travels in the incoming-call frame)
NewCall(c, m, callId) ==
  [callId |-> callId, callerId |-> userId[c], receiverId |-> m.receiverId,
   status |-> "ringing"]

\* case 'call-offer'; callId is the token Math.random() produced
CallOffer(c, m, callId) ==
  /\ activeCalls' = SetCall(activeCalls, NewCall(c, m, callId))
  /\ sent' = OfferFrames(c, m, callId)
  /\ ended' = ended \ {callId}
  /\ UNCHANGED <<readyState, userId, connections>>

\* the condition under which case 'call-answer' acts: `if (call)`
AnswerAccepted(c, m) == HasCall(activeCalls, m.callId)

\* the user case 'call-answer' forwards the answer to: `call.callerId`
AnswerTargetMutant(call, m) == m.userId
AnswerTarget(call, m) == call.callerId

\* case 'call-answer'
CallAnswer(c, m) ==
  /\ IF AnswerAccepted(c, m)
     THEN LET call == GetCall(activeCalls, m.callId) IN
          /\ activeCalls' = SetCall(activeCalls, [call EXCEPT !.status = "active"])
          /\ sent' = IF WsIsOpen(connections, AnswerTarget(call, m))
                     THEN <<[to |-> connections[AnswerTarget(call, m)],
                             msg |-> Frame("call-answered", m.callId, Undefined,
                                           Undefined, UndefStr, m.payload, UndefStr)]>>
                     ELSE <<>>
     ELSE /\ activeCalls' = activeCalls
          /\ sent' = <<>>
  /\ UNCHANGED <<readyState, userId, connections, ended>>

\* case 'call-reject' / case 'call-end'
CallEnd(c, m) ==
  /\ IF HasCall(activeCalls, m.callId)
     THEN LET endCall == GetCall(activeCalls, m.callId)
              otherUserId == OtherUserId(endCall, userId[c]) IN
          /\ sent' = IF WsIsOpen(connections, otherUserId)
                     THEN <<[to |-> connections[otherUserId],
                             msg |-> Frame(IF m.type = "call-reject"
                                           THEN "call-rejected" ELSE "call-ended",
                                           m.callId, Undefined, Undefined, UndefStr,
                                           Undefined, UndefStr)]>>
                     ELSE <<>>
          /\ activeCalls' = DeleteCall(SetCall(activeCalls,
                                               [endCall EXCEPT !.status = "ended"]),
                                       m.callId)
     ELSE /\ activeCalls' = activeCalls
          /\ sent' = <<>>
  /\ ended' = (ended \cup LiveIds(activeCalls)) \ LiveIds(activeCalls')
  /\ UNCHANGED <<readyState, userId, connections>>

IceCandidateMutant(c, m) ==
  /\ IF HasCall(activeCalls, m.callId)
     THEN LET candidateCall == GetCall(activeCalls, m.callId)
              otherUserId == OtherUserId(candidateCall, userId[c]) IN
          sent' = IF WsIsOpen(connections, otherUserId)
                  THEN <<[to |-> connections[otherUserId],
                          msg |-> Frame("ice-candidate", m.callId, Undefined,
                                        Undefined, UndefStr, m.payload, UndefStr)]>>
                  ELSE <<>>
     ELSE sent' = <<[to |-> c,
                     msg |-> Frame("call-failed", Undefined, Undefined, Undefined,
                                   UndefStr, Undefined, "Unknown call")]>>
  /\ UNCHANGED <<readyState, userId, connections, activeCalls, ended>>

\* case 'ice-candidate'
IceCandidate(c, m) ==
  /\ IF HasCall(activeCalls, m.callId)
     THEN LET candidateCall == GetCall(activeCalls, m.callId)
              otherUserId == OtherUserId(candidateCall, userId[c]) IN
          sent' = IF WsIsOpen(connections, otherUserId)
                  THEN <<[to |-> connections[otherUserId],
                          msg |-> Frame("ice-candidate", m.callId, Undefined,
                                        Undefined, UndefStr, m.payload, UndefStr)]>>
                  ELSE <<>>
     ELSE sent' = <<>>
  /\ UNCHANGED <<readyState, userId, connections, activeCalls, ended>>

\* a message of no known type (the switch has no default), or one that
\* JSON.parse rejects (the catch logs it)
Ignored(c, m) ==
  /\ sent' = <<>>
  /\ UNCHANGED <<readyState, userId, connections, activeCalls, ended>>

\* `connections.delete(userId)` of the close handler
CloseDelete(conns, c, uid) == MapDelete(conns, uid)

CloseInvolvesMutant(call, uid) == call.callerId = uid

\* the calls the close handler's loop ends: those `userId` takes part in
CloseInvolves(call, uid) == call.callerId = uid \/ call.receiverId = uid

\* the ids of the calls the loop of the close handler ends
CloseEnded(calls, uid) == {id \in DOMAIN calls : CloseInvolves(calls[id], uid)}

\* the frames the loop of the close handler writes; conns is `connections`
\* after connections.delete
CloseFrames(calls, conns, uid) ==
  LET told == SelectSeq(IdSeq(CloseEnded(calls, uid)),
                        LAMBDA id : WsIsOpen(conns, OtherUserId(calls[id], uid)))
  IN [i \in 1..Len(told) |->
        [to |-> conns[OtherUserId(calls[told[i]], uid)],
         msg |-> Frame("call-ended", told[i], Undefined, Undefined, UndefStr,
                       Undefined, "User disconnected")]]

\* ws.on('close'): the socket is CLOSED when the event is emitted
Close(c) ==
  /\ readyState[c] = "closing"
  /\ readyState' = [readyState EXCEPT ![c] = "closed"]
  /\ last' = Event("close", c, NoMsg, Undefined)
  /\ IF userId[c] \notin {Null, Undefined}
     THEN LET uid == userId[c]
              conns == CloseDelete(connections, c, uid)
          IN
          /\ connections' = conns
          /\ activeCalls' = [id \in (DOMAIN activeCalls) \ CloseEnded(activeCalls, uid)
                               |-> activeCalls[id]]
          /\ sent' = CloseFrames(activeCalls, conns, uid)
     ELSE /\ connections' = connections
          /\ activeCalls' = activeCalls
          /\ sent' = <<>>
  /\ ended' = (ended \cup LiveIds(activeCalls)) \ LiveIds(activeCalls')
  /\ UNCHANGED <<userId>>

\* ---------------------------------------------------------- client input
\* A register carries a user id; the call messages may lack receiverId or
\* callId (Undefined), and a connection may send them before any register.
RegisterMsgs == {Msg("register", u, Undefined, Undefined, Undefined, Undefined, UndefStr) :
                   u \in UserIds}
OfferMsgs == {Msg("call-offer", Undefined, r, Undefined, p, n, t) :
                r \in UserVals, p \in Payloads, n \in CallerNames, t \in CallTypes}
AnswerMsgs == {Msg("call-answer", Undefined, Undefined, id, p, Undefined, UndefStr) :
                 id \in CallVals, p \in Payloads}
EndMsgs == {Msg(t, Undefined, Undefined, id, Undefined, Undefined, UndefStr) :
              t \in {"call-reject", "call-end"}, id \in CallVals}
IceMsgs == {Msg("ice-candidate", Undefined, Undefined, id, p, Undefined, UndefStr) :
              id \in CallVals, p \in Payloads}
OtherMsgs == {Msg("unknown", Undefined, Undefined, Undefined, Undefined, Undefined, UndefStr)}

\* ws.on('message'): one frame from an open socket, handled to completion
Message(c) ==
  /\ readyState[c] = "open"
  /\ \/ \E m \in RegisterMsgs :
          /\ Register(c, m)
          /\ last' = Event("message", c, m, Undefined)
     \/ \E m \in OfferMsgs, callId \in CallIds :
          /\ CallOffer(c, m, callId)
          /\ last' = Event("message", c, m, callId)
     \/ \E m \in AnswerMsgs :
          /\ CallAnswer(c, m)
          /\ last' = Event("message", c, m, Undefined)
     \/ \E m \in EndMsgs :
          /\ CallEnd(c, m)
          /\ last' = Event("message", c, m, Undefined)
     \/ \E m \in IceMsgs :
          /\ IceCandidate(c, m)
          /\ last' = Event("message", c, m, Undefined)
     \/ \E m \in OtherMsgs :
          /\ Ignored(c, m)
          /\ last' = Event("message", c, m, Undefined)

Next ==
  \/ \E c \in Conns : Connection(c) /\ race' = NoRace /\ UNCHANGED clientVars
  \/ \E c \in Conns : Message(c) /\ race' = RaceAfter(last') /\ UNCHANGED clientVars
  \/ \E c \in Conns : Closing(c) /\ race' = NoRace /\ UNCHANGED clientVars
  \/ \E c \in Conns : Close(c) /\ race' = NoRace /\ UNCHANGED clientVars

Spec == Init /\ [][Next]_vars

\* ==================================================================
\* The client: one WebRTCService talking to the relay
\* ==================================================================
\* Of the WebRTCService, the signaling state is modelled (this.ws,
\* this.userId, this.currentCallId); the media objects (peerConnection, the
\* streams) and the methods that only use those or a call id the caller
\* passes (answerCall, rejectCall, toggleMute, toggleVideo, the ICE
\* callback) are not.
\* The relay accepts the socket of one other user (PeerConn) and the sockets
\* of the WebRTCService (Socks). The other user is any client: it registers as PeerUser and sends call
\* messages at will; the frames written to it are not followed further.
AllConns == {PeerConn} \cup Socks

ClientSpecInit ==
  /\ readyState = [c \in AllConns |-> "idle"]
  /\ userId = [c \in AllConns |-> Null]
  /\ connections = <<>>
  /\ activeCalls = <<>>
  /\ sent = <<>>
  /\ last = Event("init", 1, NoMsg, Undefined)
  /\ ended = {}
  /\ race = NoRace
  /\ ClientInit

\* The frames a relay handler wrote travel to the browser before anything
\* else happens (Transit); `sent`, `last` and `ended`, which describe the
\* last relay handler, are cleared by then.
Quiet == last.kind = "init"

\* sendSignalingMessage: the message goes out on this.ws when it is OPEN and
\* is dropped otherwise; w and st are this.ws and the sockets' readyState
SendSignalingMessage(q, w, st, m) ==
  IF w # 0 /\ st[w] = "open" THEN [q EXCEPT ![w] = Append(@, m)] ELSE q

\* the frames a relay handler wrote, put on the way to the sockets of the
\* WebRTCService (a frame for a socket the browser has closed is lost)
RECURSIVE Route(_, _)
Route(q, fs) ==
  IF fs = <<>> THEN q
  ELSE LET f == Head(fs) IN
       Route(IF f.to \in Socks /\ sockState[f.to] \in {"connecting", "open"}
             THEN [q EXCEPT ![f.to] = Append(@, f.msg)]
             ELSE q,
             Tail(fs))

RegisterMsg(u) == Msg("register", u, Undefined, Undefined, Undefined, Undefined, UndefStr)
CallEndMsg(id) == Msg("call-end", Undefined, Undefined, id, Undefined, Undefined, UndefStr)

\* the socket connect() creates: the next one not created yet
NewSock == CHOOSE s \in Socks : sockState[s] = "none" /\ \A t \in Socks : t < s => sockState[t] # "none"

\* connect(userId): sets this.userId and this.ws = new WebSocket(...)
Connect(u) ==
  /\ \E s \in Socks : sockState[s] = "none"
  /\ clientUserId' = u
  /\ ws' = NewSock
  /\ sockState' = [sockState EXCEPT ![NewSock] = "connecting"]
  /\ sockUser' = [sockUser EXCEPT ![NewSock] = u]

\* the CallManager effect runs: webrtcService.connect(currentUserId)
AppConnect(u) ==
  /\ Quiet
  /\ ~wanted
  /\ Connect(u)
  /\ wanted' = TRUE
  /\ UNCHANGED <<currentCallId, timers, up, down, starting, started, hungUp>>
  /\ UNCHANGED relayVars

\* the CallManager effect is cleaned up: webrtcService.disconnect(), that is
\* cleanup(), this.ws.close() and this.ws = null
Disconnect ==
  /\ Quiet
  /\ wanted
  /\ wanted' = FALSE
  /\ ws' = 0
  /\ sockState' = IF ws # 0 /\ sockState[ws] \in {"connecting", "open"}
                  THEN [sockState EXCEPT ![ws] = "closing"]
                  ELSE sockState
  /\ UNCHANGED <<clientUserId, currentCallId, sockUser, timers, up, down,
                 starting, started, hungUp>>
  /\ UNCHANGED relayVars

\* ws.onopen of socket s: the socket is OPEN and the handler sends register
\* with the userId of its connect() through sendSignalingMessage
OnOpen(s) ==
  /\ Quiet
  /\ sockState[s] = "connecting"
  /\ readyState[s] = "open"
  /\ ws # 0 => Len(up[ws]) < MaxUp
  /\ sockState' = [sockState EXCEPT ![s] = "open"]
  /\ up' = SendSignalingMessage(up, ws, sockState', RegisterMsg(sockUser[s]))
  /\ UNCHANGED <<ws, clientUserId, currentCallId, sockUser, timers, down,
                 starting, wanted, started, hungUp>>
  /\ UNCHANGED relayVars

\* ws.onclose of socket s: the close event of a socket that close() was
\* called on, or whose connection the relay side has lost; the handler
\* sets the 3 s timeout
OnClose(s) ==
  /\ Quiet
  /\ \/ sockState[s] = "closing"
     \/ sockState[s] \in {"connecting", "open"} /\ readyState[s] \in {"closing", "closed"}
  /\ sockState' = [sockState EXCEPT ![s] = "closed"]
  /\ timers' = timers + 1
  /\ up' = [up EXCEPT ![s] = <<>>]
  /\ down' = [down EXCEPT ![s] = <<>>]
  /\ UNCHANGED <<ws, clientUserId, currentCallId, sockUser, starting, wanted,
                 started, hungUp>>
  /\ UNCHANGED relayVars

\* whether the timeout callback reconnects: `if (this.userId)`
ReconnectsMutant(u) == wanted /\ u # Null
Reconnects(u) == u # Null

\* the callback of the timeout: `if (this.userId) this.connect(this.userId)`
Timeout ==
  /\ Quiet
  /\ timers > 0
  /\ timers' = timers - 1
  /\ IF Reconnects(clientUserId)
     THEN Connect(clientUserId)
     ELSE UNCHANGED <<ws, clientUserId, sockState, sockUser>>
  /\ UNCHANGED <<currentCallId, up, down, starting, wanted, started, hungUp>>
  /\ UNCHANGED relayVars

\* startCall(receiverId, ...) is invoked and awaits getUserMedia and the
\* SDP offer
StartCall(r) ==
  /\ Quiet
  /\ ~started
  /\ starting = 0
  /\ starting' = r
  /\ started' = TRUE
  /\ UNCHANGED <<ws, clientUserId, currentCallId, sockState, sockUser, timers,
                 up, down, wanted, hungUp>>
  /\ UNCHANGED relayVars

\* startCall resumes and sends call-offer through sendSignalingMessage
StartCallSend(m) ==
  /\ Quiet
  /\ starting # 0
  /\ m.receiverId = starting
  /\ ws # 0 => Len(up[ws]) < MaxUp
  /\ up' = SendSignalingMessage(up, ws, sockState, m)
  /\ starting' = 0
  /\ UNCHANGED <<ws, clientUserId, currentCallId, sockState, sockUser, timers,
                 down, wanted, started, hungUp>>
  /\ UNCHANGED relayVars

\* startCall fails to get the media: the catch reports it, nothing is sent
StartCallFailed ==
  /\ Quiet
  /\ starting # 0
  /\ starting' = 0
  /\ UNCHANGED <<ws, clientUserId, currentCallId, sockState, sockUser, timers,
                 up, down, wanted, started, hungUp>>
  /\ UNCHANGED relayVars

\* what endCall sends: call-end for this.currentCallId `if (this.currentCallId)`
EndCallSends(q) ==
  IF currentCallId # Null
  THEN SendSignalingMessage(q, ws, sockState, CallEndMsg(currentCallId))
  ELSE q

\* endCall()
EndCall ==
  /\ Quiet
  /\ ws # 0 => Len(up[ws]) < MaxUp
  /\ up' = EndCallSends(up)
  /\ currentCallId' = Null
  /\ hungUp' = (hungUp \/ started)
  /\ UNCHANGED <<ws, clientUserId, sockState, sockUser, timers, down, starting,
                 wanted, started>>
  /\ UNCHANGED relayVars

\* this.currentCallId after handleSignalingMessage(f)
AfterSignalingMessage(cur, f) ==
  IF f.type \in {"call-initiated", "incoming-call"} THEN f.callId
  ELSE IF f.type \in {"call-rejected", "call-ended", "call-failed"} THEN Null
  ELSE cur

\* ws.onmessage of socket s: handleSignalingMessage(JSON.parse(event.data))
OnMessage(s) ==
  /\ Quiet
  /\ sockState[s] = "open"
  /\ down[s] # <<>>
  /\ currentCallId' = AfterSignalingMessage(currentCallId, Head(down[s]))
  /\ down' = [down EXCEPT ![s] = Tail(@)]
  /\ UNCHANGED <<ws, clientUserId, sockState, sockUser, timers, up, starting,
                 wanted, started, hungUp>>
  /\ UNCHANGED relayVars

\* ---------------------------------------------------------- the relay side
\* the switch of ws.on('message') for one given message
Dispatch(c, m) ==
  \/ /\ m.type = "register"
     /\ Register(c, m)
     /\ last' = Event("message", c, m, Undefined)
  \/ /\ m.type = "call-offer"
     /\ \E callId \in CallIds :
          /\ CallOffer(c, m, callId)
          /\ last' = Event("message", c, m, callId)
  \/ /\ m.type = "call-answer"
     /\ CallAnswer(c, m)
     /\ last' = Event("message", c, m, Undefined)
  \/ /\ m.type \in {"call-reject", "call-end"}
     /\ CallEnd(c, m)
     /\ last' = Event("message", c, m, Undefined)
  \/ /\ m.type = "ice-candidate"
     /\ IceCandidate(c, m)
     /\ last' = Event("message", c, m, Undefined)

\* a relay handler writes at most NCallIds frames (cap of the model: the
\* relay runs a handler only when the queues have room for them)
Room == \A s \in Socks : Len(down[s]) + NCallIds <= MaxDown

\* wss.on('connection'): a socket of the WebRTCService is accepted while
\* the browser is connecting it, the other user's at any time
RelayConnection(c) ==
  /\ Quiet
  /\ c \in Socks => sockState[c] = "connecting"
  /\ readyState[c] = "idle"
  /\ readyState' = [readyState EXCEPT ![c] = "open"]
  /\ sent' = <<>>
  /\ last' = Event("connection", c, NoMsg, Undefined)
  /\ UNCHANGED <<userId, connections, activeCalls, ended, race>>
  /\ UNCHANGED clientVars

\* ws.on('message') for the oldest message of a socket of the WebRTCService
RelayMessage(s) ==
  /\ Quiet
  /\ readyState[s] = "open"
  /\ up[s] # <<>>
  /\ Room
  /\ Dispatch(s, Head(up[s]))
  /\ up' = [up EXCEPT ![s] = Tail(@)]
  /\ UNCHANGED race
  /\ UNCHANGED <<ws, clientUserId, currentCallId, sockState, sockUser, timers,
                 down, starting, wanted, started, hungUp>>

\* what the other user sends
PeerMsgs ==
  {RegisterMsg(PeerUser)}
  \cup {m \in OfferMsgs : m.receiverId \in ClientUsers}
  \cup {m \in AnswerMsgs \cup EndMsgs \cup IceMsgs : m.callId \in CallIds}

\* ws.on('message') for a message of the other user
PeerMessage(m) ==
  /\ Quiet
  /\ readyState[PeerConn] = "open"
  /\ Room
  /\ Dispatch(PeerConn, m)
  /\ UNCHANGED race
  /\ UNCHANGED clientVars

\* the relay's side of a connection leaves OPEN
RelayClosing(c) ==
  /\ Quiet
  /\ Closing(c)
  /\ UNCHANGED race
  /\ UNCHANGED clientVars

\* ws.on('close')
RelayClose(c) ==
  /\ Quiet
  /\ Room
  /\ Close(c)
  /\ UNCHANGED race
  /\ UNCHANGED clientVars

\* the frames of the last relay handler reach the browser's sockets
Transit ==
  /\ ~Quiet
  /\ down' = Route(down, sent)
  /\ sent' = <<>>
  /\ last' = Event("init", 1, NoMsg, Undefined)
  /\ ended' = {}
  /\ UNCHANGED <<readyState, userId, connections, activeCalls, race>>
  /\ UNCHANGED <<ws, clientUserId, currentCallId, sockState, sockUser, timers,
                 up, starting, wanted, started, hungUp>>

\* The connection life cycle of the WebRTCService: connect, disconnect, the
\* socket events and the reconnect timeout, with the relay registering it.
ReconnectNext ==
  \/ \E u \in ClientUsers : AppConnect(u)
  \/ Disconnect
  \/ \E s \in Socks : OnOpen(s)
  \/ \E s \in Socks : OnClose(s)
  \/ Timeout
  \/ \E c \in AllConns : RelayConnection(c)
  \/ \E s \in Socks : RelayMessage(s)
  \/ \E c \in AllConns : RelayClosing(c)
  \/ \E c \in AllConns : RelayClose(c)
  \/ Transit

ReconnectSpec == ClientSpecInit /\ [][ReconnectNext]_vars

\* The browser runs a due timeout callback and dispatches the events of its
\* sockets; the relay accepts a pending connection and runs its handlers.
\* Nothing obliges the application to call connect or disconnect, or a
\* connection to fail.
ReconnectFairSpec ==
  /\ ReconnectSpec
  /\ WF_vars(Timeout)
  /\ WF_vars(Transit)
  /\ \A s \in Socks : WF_vars(OnOpen(s)) /\ WF_vars(OnClose(s)) /\ WF_vars(RelayMessage(s))
  /\ \A c \in AllConns : WF_vars(RelayConnection(c)) /\ WF_vars(RelayClose(c))

\* The calls of a WebRTCService that stays connected on its first socket:
\* startCall, endCall and the frames it receives, with the relay and the
\* other user.
CallNext ==
  \/ \E u \in ClientUsers : AppConnect(u)
  \/ \E s \in Socks : OnOpen(s)
  \/ \E r \in UserIds : StartCall(r)
  \/ \E m \in OfferMsgs : StartCallSend(m)
  \/ StartCallFailed
  \/ EndCall
  \/ \E s \in Socks : OnMessage(s)
  \/ \E c \in AllConns : RelayConnection(c)
  \/ \E s \in Socks : RelayMessage(s)
  \/ \E m \in PeerMsgs : PeerMessage(m)
  \/ Transit

CallSpec == ClientSpecInit /\ [][CallNext]_vars

\* ==================================================================
\* Properties
\* ==================================================================
IsMsg(e, t) == e.kind = "message" /\ e.msg.type = t
IsClose(e) == e.kind = "close"
Registered(u) == u \in DOMAIN connections
Online(u) == Registered(u) /\ readyState[connections[u]] = "open"
Participant(call, u) == call.callerId = u \/ call.receiverId = u
Frames(fs) == {fs[i] : i \in 1..Len(fs)}
IsTermination(f) == f.msg.type \in {"call-ended", "call-rejected"}
\* the reason texts of the relay, compared without regard to letter case
ReasonLower(r) ==
  CASE r = "User not available" -> "user not available"
    [] r = "User disconnected" -> "user disconnected"
    [] OTHER -> r

\* C1: after a call-offer from a registered user to a receiver with no
\* registered open connection, the sender has been sent call-failed with
\* reason "user not available" and the store holds no session for the offer.
C1_OfflineOfferLeavesNoSession ==
  (/\ IsMsg(last, "call-offer")
   /\ userId[last.conn] \in UserIds
   /\ ~Online(last.msg.receiverId))
  => /\ \E f \in Frames(sent) :
          /\ f.to = last.conn
          /\ f.msg.type = "call-failed"
          /\ ReasonLower(f.msg.reason) = "user not available"
     /\ last.gen \notin LiveIds(activeCalls)

\* C2: the close of a connection leaves in place every registry entry whose
\* stored connection is another connection than the one that closed.
C2_CloseKeepsOtherConnections ==
  [][IsClose(last') =>
       \A u \in DOMAIN connections :
         connections[u] # last'.conn =>
           (u \in DOMAIN connections' /\ connections'[u] = connections[u])]_vars

\* C3: the close of a connection that is not the registered connection of its
\* user id terminates no session and sends no notification.
C3_StaleCloseEndsNothing ==
  [][(/\ IsClose(last')
      /\ userId[last'.conn] \in UserIds
      /\ (~Registered(userId[last'.conn])
          \/ connections[userId[last'.conn]] # last'.conn))
     => (activeCalls' = activeCalls /\ sent' = <<>>)]_vars

\* C4: a call-answer changes the store or delivers a frame only when the
\* session exists, is ringing, and the sender is the session's receiver.
C4_AnswerOnlyByReceiverOfRinging ==
  [][IsMsg(last', "call-answer") =>
       ((activeCalls' # activeCalls \/ sent' # <<>>) =>
          /\ last'.msg.callId \in LiveIds(activeCalls)
          /\ activeCalls[last'.msg.callId].status = "ringing"
          /\ activeCalls[last'.msg.callId].receiverId = userId[last'.conn])]_vars

\* C5: no call id goes from active back to ringing, and a call id whose
\* session has ended never has a session again.
C5_StatesOnlyAdvance ==
  [][\A id \in CallIds :
       /\ (id \in LiveIds(activeCalls) /\ activeCalls[id].status = "active")
            => ~(id \in LiveIds(activeCalls') /\ activeCalls'[id].status = "ringing")
       /\ id \in ended => id \notin LiveIds(activeCalls')]_vars

\* C6: a step writes a call-ended or call-rejected frame for a call id only
\* when it removes the live session of that id, and then writes exactly one;
\* a call-end or call-reject for an id without a session writes nothing.
\* So between the creation of a session and its removal one termination
\* notification is written, and a later termination is a silent no-op.
C6_OneTerminationNotice ==
  [][/\ \A id \in CallIds :
          LET notes == {i \in 1..Len(sent') :
                          IsTermination(sent'[i]) /\ sent'[i].msg.callId = id}
          IN /\ Cardinality(notes) <= 1
             /\ notes # {} => /\ id \in LiveIds(activeCalls)
                              /\ id \notin LiveIds(activeCalls')
                              /\ id \in ended'
     /\ \A f \in Frames(sent') : IsTermination(f) => f.msg.callId \in CallIds
     /\ ((IsMsg(last', "call-end") \/ IsMsg(last', "call-reject"))
         /\ last'.msg.callId \notin LiveIds(activeCalls))
        => (sent' = <<>> /\ activeCalls' = activeCalls)]_vars

\* a call-end for a call that has already ended was just handled silently
C6_Witness ==
  /\ IsMsg(last, "call-end")
  /\ last.msg.callId \in ended
  /\ sent = <<>>

\* C7: a call-offer from registered user A to online user B writes
\* call-initiated{X} to A's connection and then incoming-call{X, callerId A,
\* callerName, callType, offer of the request} to B's registered connection,
\* and session X = (caller A, receiver B, ringing) is in the store.
C7_OfferToOnlineReceiver ==
  (/\ IsMsg(last, "call-offer")
   /\ userId[last.conn] \in UserIds
   /\ last.msg.receiverId \in UserIds
   /\ Online(last.msg.receiverId))
  => /\ sent = <<[to |-> last.conn,
                  msg |-> Frame("call-initiated", last.gen, Undefined, Undefined,
                                UndefStr, Undefined, UndefStr)],
                 [to |-> connections[last.msg.receiverId],
                  msg |-> Frame("incoming-call", last.gen, userId[last.conn],
                                last.msg.callerName, last.msg.callType,
                                last.msg.payload, UndefStr)]>>
     /\ last.gen \in LiveIds(activeCalls)
     /\ activeCalls[last.gen].callId = last.gen
     /\ activeCalls[last.gen].callerId = userId[last.conn]
     /\ activeCalls[last.gen].receiverId = last.msg.receiverId
     /\ activeCalls[last.gen].status = "ringing"

C7_Witness ==
  /\ IsMsg(last, "call-offer")
  /\ userId[last.conn] \in UserIds
  /\ last.msg.receiverId \in UserIds \ {userId[last.conn]}
  /\ Online(last.msg.receiverId)
  /\ connections[last.msg.receiverId] # last.conn
  /\ Len(sent) = 2

\* C8: a call-answer by the receiver of a ringing session X makes X active
\* and the only frame written is call-answered{X, answer of the request}, to
\* the connection registered for X's stored callerId (written when that
\* connection is open).
C8_AnswerGoesToStoredCaller ==
  [][(/\ IsMsg(last', "call-answer")
      /\ last'.msg.callId \in LiveIds(activeCalls)
      /\ activeCalls[last'.msg.callId].status = "ringing"
      /\ activeCalls[last'.msg.callId].receiverId = userId[last'.conn])
     => LET id == last'.msg.callId
            caller == activeCalls[id].callerId
        IN /\ activeCalls' = [activeCalls EXCEPT ![id].status = "active"]
           /\ sent' = IF caller \in DOMAIN connections
                         /\ readyState[connections[caller]] = "open"
                      THEN <<[to |-> connections[caller],
                              msg |-> Frame("call-answered", id, Undefined,
                                            Undefined, UndefStr,
                                            last'.msg.payload, UndefStr)]>>
                      ELSE <<>>]_vars

C8_Witness ==
  /\ IsMsg(last, "call-answer")
  /\ last.msg.callId \in LiveIds(activeCalls)
  /\ activeCalls[last.msg.callId].status = "active"
  /\ activeCalls[last.msg.callId].receiverId = userId[last.conn]
  /\ activeCalls[last.msg.callId].callerId \in UserIds \ {userId[last.conn]}
  /\ Len(sent) = 1
  /\ sent[1].to = connections[activeCalls[last.msg.callId].callerId]
  /\ sent[1].to # last.conn
  /\ sent[1].msg.type = "call-answered"

\* the frames C9 expects of the close of user u's connection, with the
\* given reason text: one call-ended per session of u whose other
\* participant is among the reachable users (u itself is not: its registry
\* entry is deleted first)
C9Expected(u, reason, reachable) ==
  {[to |-> connections[OtherUserId(activeCalls[id], u)],
    msg |-> Frame("call-ended", id, Undefined, Undefined, UndefStr, Undefined,
                  reason)] :
     id \in {x \in LiveIds(activeCalls) :
               /\ Participant(activeCalls[x], u)
               /\ OtherUserId(activeCalls[x], u) # u
               /\ OtherUserId(activeCalls[x], u) \in reachable}}

C9Body(reason, reachable) ==
  (IsClose(last') /\ userId[last'.conn] \in UserIds)
  => LET u == userId[last'.conn] IN
     /\ \A id \in LiveIds(activeCalls) :
          Participant(activeCalls[id], u) => id \notin LiveIds(activeCalls')
     /\ \A id \in LiveIds(activeCalls') : ~Participant(activeCalls'[id], u)
     /\ \A id \in LiveIds(activeCalls) :
          ~Participant(activeCalls[id], u) =>
             (id \in LiveIds(activeCalls') /\ activeCalls'[id] = activeCalls[id])
     /\ Frames(sent') = C9Expected(u, reason, reachable)
     /\ Len(sent') = Cardinality(Frames(sent'))

C10_StaleReferenceDropped ==
  [][(/\ \E t \in {"call-answer", "call-reject", "call-end", "ice-candidate"} :
            IsMsg(last', t)
      /\ last'.msg.callId \notin LiveIds(activeCalls))
     => /\ UNCHANGED <<readyState, userId, connections, activeCalls>>
        /\ sent' = <<>>]_vars

\* an ICE candidate for a call that has ended was just handled
C10_Witness ==
  /\ IsMsg(last, "ice-candidate")
  /\ last.msg.callId \in ended
  /\ sent = <<>>

\* ------------------------------------------------------------------
\* the frames the relay forwards to a user, and its replies to a requester
IsForward(f) ==
  f.msg.type \in {"incoming-call", "call-answered", "call-rejected",
                  "call-ended", "ice-candidate"}
IsReply(f) == f.msg.type \in {"call-initiated", "call-failed"}

\* the users a frame written by the step to last' can be meant for: the
\* receiver named by the offer, the stored caller of the answered call, a
\* participant of the call ended or relayed
AddressedTo(f) ==
  CASE f.msg.type = "incoming-call" -> {last'.msg.receiverId}
    [] f.msg.type = "call-answered" -> {activeCalls[f.msg.callId].callerId}
    [] OTHER -> {activeCalls[f.msg.callId].callerId,
                 activeCalls[f.msg.callId].receiverId}

Peer(call, u) == IF call.callerId = u THEN call.receiverId ELSE call.callerId

\* C12: a call-reject or call-end from a participant of a live session
\* removes that session and no other, the only frame written is the matching
\* call-rejected / call-ended with the same call id, to the other
\* participant's registered connection (when open), and no frame is written
\* to the sender's connection.
C12_EndNotifiesOnlyThePeer ==
  [][(/\ (IsMsg(last', "call-end") \/ IsMsg(last', "call-reject"))
      /\ last'.msg.callId \in LiveIds(activeCalls)
      /\ userId[last'.conn] \in UserIds
      /\ Participant(activeCalls[last'.msg.callId], userId[last'.conn]))
     => LET id == last'.msg.callId
            o == Peer(activeCalls[id], userId[last'.conn])
        IN /\ LiveIds(activeCalls') = LiveIds(activeCalls) \ {id}
           /\ \A x \in LiveIds(activeCalls') : activeCalls'[x] = activeCalls[x]
           /\ sent' = IF Online(o)
                      THEN <<[to |-> connections[o],
                              msg |-> Frame(IF last'.msg.type = "call-reject"
                                            THEN "call-rejected" ELSE "call-ended",
                                            id, Undefined, Undefined, UndefStr,
                                            Undefined, UndefStr)]>>
                      ELSE <<>>
           /\ \A f \in Frames(sent') : f.to # last'.conn]_vars

\* C13: an ice-candidate from a participant of a live session leaves the
\* store as it is, and the only frame written is ice-candidate with the same
\* call id and the candidate of the request, to the other participant's
\* registered connection (when open); none is written to the sender's
\* connection.
C13_CandidateGoesToThePeer ==
  [][(/\ IsMsg(last', "ice-candidate")
      /\ last'.msg.callId \in LiveIds(activeCalls)
      /\ userId[last'.conn] \in UserIds
      /\ Participant(activeCalls[last'.msg.callId], userId[last'.conn]))
     => LET id == last'.msg.callId
            o == Peer(activeCalls[id], userId[last'.conn])
        IN /\ activeCalls' = activeCalls
           /\ sent' = IF Online(o)
                      THEN <<[to |-> connections[o],
                              msg |-> Frame("ice-candidate", id, Undefined,
                                            Undefined, UndefStr,
                                            last'.msg.payload, UndefStr)]>>
                      ELSE <<>>
           /\ \A f \in Frames(sent') : f.to # last'.conn]_vars

\* a message of unknown type, or one that lacks a field its type requires
Malformed(e) ==
  /\ e.kind = "message"
  /\ \/ e.msg.type \notin {"register", "call-offer", "call-answer",
                            "call-reject", "call-end", "ice-candidate"}
     \/ e.msg.type = "register" /\ e.msg.userId = Undefined
     \/ e.msg.type = "call-offer" /\ e.msg.receiverId = Undefined
     \/ e.msg.type \in {"call-answer", "call-reject", "call-end", "ice-candidate"}
        /\ e.msg.callId = Undefined

\* C14: a malformed message changes neither the registry nor the store and
\* no frame is written to any connection.
C14_MalformedIsNoOp ==
  [][Malformed(last') =>
       (UNCHANGED <<connections, activeCalls>> /\ sent' = <<>>)]_vars

\* C15: the call id given to a new session is not the id of a session in
\* the store, so a call-offer leaves every session of the store as it is.
C15_NewCallIdIsFresh ==
  [][IsMsg(last', "call-offer") =>
       /\ last'.gen \notin LiveIds(activeCalls)
       /\ \A id \in LiveIds(activeCalls) :
             id \in LiveIds(activeCalls') /\ activeCalls'[id] = activeCalls[id]]_vars

\* C16: every session in the store has a caller id different from its
\* receiver id.
C16_CallerIsNotReceiver ==
  \A id \in LiveIds(activeCalls) :
    activeCalls[id].callerId # activeCalls[id].receiverId

\* the user a frame written by the step to last' is meant for: the requester
\* for a reply; for a forward the receiver named by the offer, the stored
\* caller of the answered call, or the peer of the acting user in the call
SentFor(f) ==
  CASE IsReply(f) -> userId[last'.conn]
    [] f.msg.type = "incoming-call" -> last'.msg.receiverId
    [] f.msg.type = "call-answered" -> activeCalls[f.msg.callId].callerId
    [] OTHER -> Peer(activeCalls[f.msg.callId], userId[last'.conn])

ForwardTargets(e) ==
  IF e.kind # "message" THEN {}
  ELSE IF e.msg.type = "call-offer" THEN {e.msg.receiverId}
  ELSE IF ~HasCall(activeCalls, e.msg.callId) THEN {}
  ELSE IF e.msg.type = "call-answer" THEN {activeCalls[e.msg.callId].callerId}
  ELSE IF e.msg.type \in {"call-reject", "call-end", "ice-candidate"}
       THEN {Peer(activeCalls[e.msg.callId], userId[e.conn])}
  ELSE {}

\* C18: a forward whose target is registered on a connection that is no
\* longer open makes the relay treat the target as disconnected: its
\* registry entry is removed and no session of the target stays in the store.
C18_UnwritablePeerIsDisconnected ==
  [][\A t \in ForwardTargets(last') :
       (Registered(t) /\ readyState[connections[t]] # "open")
         => /\ t \notin DOMAIN connections'
            /\ \A id \in LiveIds(activeCalls') :
                 ~Participant(activeCalls'[id], t)]_vars

\* C19: once a call-offer has been handled, the session it created is in
\* the store (ringing, with the offering connection's user as caller) and
\* the handler wrote exactly two frames in this order: call-initiated with
\* the new call id to the offering connection, then either incoming-call
\* with that call id or call-failed.
C19_SessionThenInitiatedThenDelivery ==
  IsMsg(last, "call-offer") =>
    /\ HasCall(activeCalls, last.gen)
    /\ activeCalls[last.gen].callId = last.gen
    /\ activeCalls[last.gen].status = "ringing"
    /\ activeCalls[last.gen].callerId = userId[last.conn]
    /\ activeCalls[last.gen].receiverId = last.msg.receiverId
    /\ Len(sent) = 2
    /\ sent[1].to = last.conn
    /\ sent[1].msg.type = "call-initiated"
    /\ sent[1].msg.callId = last.gen
    /\ \/ sent[2].msg.type = "incoming-call" /\ sent[2].msg.callId = last.gen
       \/ sent[2].msg.type = "call-failed" /\ sent[2].to = last.conn

\* a call-offer was delivered to a receiver on another connection
C19_Witness ==
  /\ IsMsg(last, "call-offer")
  /\ Len(sent) = 2
  /\ sent[1].msg.type = "call-initiated"
  /\ sent[2].msg.type = "incoming-call"
  /\ sent[2].to # last.conn
  /\ HasCall(activeCalls, sent[2].msg.callId)

\* C20: between the handling of any two events every session in the store
\* is ringing or active; a session that is ended is no longer in the store.
C20_StoreHoldsOnlyLiveSessions ==
  \A id \in LiveIds(activeCalls) :
    activeCalls[id].status \in {"ringing", "active"}

\* a call-end has just removed a session while an answered one is still kept
C20_Witness ==
  /\ IsMsg(last, "call-end")
  /\ last.msg.callId \in ended
  /\ ~HasCall(activeCalls, last.msg.callId)
  /\ \E id \in LiveIds(activeCalls) : activeCalls[id].status = "active"

\* C21: no two sessions in the store have the same unordered pair of two
\* distinct users as caller and receiver.
C21_OneSessionPerPair ==
  \A id1, id2 \in LiveIds(activeCalls) :
    (/\ id1 # id2
     /\ {activeCalls[id1].callerId, activeCalls[id1].receiverId} \subseteq UserIds
     /\ activeCalls[id1].callerId # activeCalls[id1].receiverId) =>
      {activeCalls[id1].callerId, activeCalls[id1].receiverId}
        # {activeCalls[id2].callerId, activeCalls[id2].receiverId}

\* the step handles a call-answer, call-reject or call-end that names id
Touches(e, id) ==
  /\ e.kind = "message"
  /\ e.msg.type \in {"call-answer", "call-reject", "call-end"}
  /\ e.msg.callId = id

\* the step is the close of the connection registered for a participant
\* of call
ParticipantCloses(e, call) ==
  /\ IsClose(e)
  /\ \E p \in {call.callerId, call.receiverId} :
       Registered(p) /\ connections[p] = e.conn

\* C23: a ringing session that no call-answer, call-reject or call-end
\* names stays in the store, unchanged, over every step that is not the
\* close of a participant's registered connection, and that close removes it.
C23_RingingStaysUntilDisconnect ==
  [][\A id \in LiveIds(activeCalls) :
       activeCalls[id].status = "ringing" =>
         /\ (~Touches(last', id) /\ ~ParticipantCloses(last', activeCalls[id]))
              => (HasCall(activeCalls', id) /\ activeCalls'[id] = activeCalls[id])
         /\ ParticipantCloses(last', activeCalls[id])
              => ~HasCall(activeCalls', id)]_vars

\* C24: a call-reject, call-end or ice-candidate that names a live session
\* and comes from a connection whose user id is neither its caller nor its
\* receiver (a connection that never registered included) leaves the store
\* unchanged and writes no frame.
C24_OnlyParticipantsAffectACall ==
  [][(/\ last'.kind = "message"
      /\ last'.msg.type \in {"call-reject", "call-end", "ice-candidate"}
      /\ HasCall(activeCalls, last'.msg.callId)
      /\ ~Participant(activeCalls[last'.msg.callId], userId[last'.conn]))
       => (activeCalls' = activeCalls /\ sent' = <<>>)]_vars

\* C25: no registry entry refers to a connection whose close has been
\* handled.
C25_NoEntryForClosedConnection ==
  \A u \in DOMAIN connections : readyState[connections[u]] # "closed"

\* C26: when the close of every accepted connection has been handled, the
\* store is empty.
C26_NoSessionOutlivesConnections ==
  (\A c \in Conns : readyState[c] \in {"idle", "closed"}) => activeCalls = <<>>

\* C22: when a call-end of participant A and an ice-candidate of participant
\* B for the same live call are handled one right after the other, in
\* either order: the session is removed by the call-end and stays removed;
\* the call-end writes exactly one call-ended, to B, and the candidate
\* handler writes none; the candidate is written to A when it is handled
\* first and to nobody when it is handled second; no other frame is written.
C22_EndAndCandidateInEitherOrder ==
  LET id == last.msg.callId
      one(type, to) == /\ Len(sent) = 1
                       /\ sent[1].to = to
                       /\ sent[1].msg.type = type
                       /\ sent[1].msg.callId = id
  IN
  /\ race.order = "end" =>
       /\ IsMsg(last, "call-end") /\ ~HasCall(activeCalls, id)
       /\ \E b \in Conns \ {last.conn} : one("call-ended", b)
  /\ race.order = "end-ice" =>
       /\ IsMsg(last, "ice-candidate") /\ ~HasCall(activeCalls, id)
       /\ last.conn # race.first
       /\ sent = <<>>
  /\ race.order = "ice" =>
       /\ IsMsg(last, "ice-candidate") /\ HasCall(activeCalls, id)
       /\ \E a \in Conns \ {last.conn} :
            one("ice-candidate", a) /\ sent[1].msg.payload = last.msg.payload
  /\ race.order = "ice-end" =>
       /\ IsMsg(last, "call-end") /\ ~HasCall(activeCalls, id)
       /\ last.conn # race.first
       /\ one("call-ended", race.first)

\* the candidate of B was handled right after the call-end of A
C22_Witness ==
  /\ race.order = "end-ice"
  /\ IsMsg(last, "ice-candidate")
  /\ last.msg.callId \in ended

\* ------------------------------------------------------------------
\* the WebRTCService
\* ------------------------------------------------------------------
\* the socket in this.ws has closed, other than by disconnect()
Lost == ws # 0 /\ sockState[ws] = "closed" /\ clientUserId # Null

\* the relay's registry maps this.userId to the open socket in this.ws
RegisteredOnWs ==
  /\ ws # 0
  /\ sockState[ws] = "open"
  /\ clientUserId \in DOMAIN connections
  /\ connections[clientUserId] = ws
  /\ readyState[ws] = "open"

\* every socket the model has was used (the bound NSocks is reached)
Exhausted == \A s \in Socks : sockState[s] # "none"

\* C27: the close event of a socket sets a timeout; the timeout callback,
\* this.userId being set, creates a new socket that becomes this.ws, for the
\* same user id; the open event of the socket in this.ws sends register
\* with that user id on it; and a client whose socket has closed is
\* eventually registered at the relay on an open socket again (unless the
\* model has no socket left to create).
C27_LostSocketIsReplaced ==
  /\ [][/\ \A s \in Socks : OnClose(s) => timers' = timers + 1
        /\ (Timeout /\ clientUserId # Null) =>
             /\ clientUserId' = clientUserId
             /\ ws' # ws
             /\ ws' \in Socks
             /\ sockState[ws'] = "none"
             /\ sockState'[ws'] = "connecting"
             /\ sockUser'[ws'] = clientUserId
        /\ \A s \in Socks : (OnOpen(s) /\ ws = s) =>
             /\ sockUser[s] = clientUserId
             /\ up'[s] = Append(up[s], RegisterMsg(clientUserId))]_vars
  /\ (Lost ~> (RegisteredOnWs \/ Exhausted))

\* the first socket has closed and the client is registered on a later one
C27_Witness ==
  /\ RegisteredOnWs
  /\ \E s \in Socks : s < ws /\ sockState[s] = "closed"
  /\ ~Exhausted
  /\ wanted

\* C28: while disconnect() is the application's last call, no socket is
\* connecting or open; and at most one socket is open at any time.
C28_NoReconnectAfterDisconnect ==
  /\ ~wanted => \A s \in Socks : sockState[s] \notin {"connecting", "open"}
  /\ Cardinality({s \in Socks : sockState[s] = "open"}) <= 1

\* C29: while this.currentCallId is set, an incoming-call, call-ended or
\* call-rejected frame that carries another call id leaves it unchanged.
C29_OtherCallsLeaveCurrentCall ==
  [][\A s \in Socks :
       (/\ OnMessage(s)
        /\ currentCallId # Null
        /\ Head(down[s]).type \in {"incoming-call", "call-ended", "call-rejected"}
        /\ Head(down[s]).callId # currentCallId)
         => currentCallId' = currentCallId]_vars

\* C30: once endCall() has been invoked after startCall() and every message
\* and frame in flight has been handled, the relay holds no ringing session
\* from the client's user to the other user while that user is registered.
C30_HangUpIsNotLost ==
  (/\ hungUp
   /\ Quiet
   /\ starting = 0
   /\ \A s \in Socks : up[s] = <<>> /\ down[s] = <<>>)
    => ~\E id \in LiveIds(activeCalls) :
          /\ activeCalls[id].callerId = clientUserId
          /\ activeCalls[id].receiverId = PeerUser
          /\ activeCalls[id].status = "ringing"
          /\ Online(PeerUser)

====
